---- MODULE Spec2Model ----
(***************************************************************************)
(* Dynamic borrow tracking of neon (src/borrow/mod.rs): the loan guards    *)
(* Ref / RefMut, the Borrow / BorrowMut request surface and the unwinding  *)
(* of a native call up to convert_panics (src/types/error.rs).             *)
(*                                                                         *)
(* The Ledger and the Pointer trait live in borrow/internal.rs, and Lock   *)
(* in context/mod.rs; those files are not part of the sources at hand, so  *)
(* the four ledger operations and the address projection are modelled from *)
(* the written specification (sections 3 and 4.1), and the error variant a *)
(* refused request carries from the documentation of LoanError.            *)
(***************************************************************************)
EXTENDS Integers, Sequences, FiniteSets

\* ---------------------------------------------------------------- bounds
\* Guards created during one native call (live or already dropped); a
\* request that would create one more is not taken.
MaxGuards == 3

\* ------------------------------------------------------------ the universe
\* Two access scopes (Lock values), each owning its own ledger.
Scopes == {1, 2}
\* Identity addresses of backing memory.
Addrs == {"A1", "A2"}
\* Handles to JS values (Copy types: one handle can be borrowed repeatedly);
\* h1 has its contents at A1, h2 at A2.
Handles == {"h1", "h2"}

\* Pointer::as_ptr: the read-only identity address of a handle's contents.
as_ptr(h) == IF h = "h1" THEN "A1" ELSE "A2"
\* Pointer::as_mut: the mutable identity address (the same memory).
as_mut(h) == IF h = "h1" THEN "A1" ELSE "A2"

\* ------------------------------------------------------------- loan state
Unborrowed == [kind |-> "Unborrowed", n |-> 0]
Shared(k) == [kind |-> "Shared", n |-> k]
Exclusive == [kind |-> "Exclusive", n |-> 0]

LoanStates == {Unborrowed, Exclusive} \cup {Shared(k) : k \in 1..(MaxGuards + 1)}

\* Ledger::new: no address is on loan.
Ledger_new == [a \in Addrs |-> Unborrowed]

\* enum LoanError { Mutating(p), Frozen(p) }
Mutating(p) == [variant |-> "Mutating", addr |-> p]
Frozen(p) == [variant |-> "Frozen", addr |-> p]
NoError == [variant |-> "None", addr |-> "none"]

\* impl Display for LoanError, as the list of the pieces written.
LoanError_fmt(e) ==
    IF e.variant = "Mutating"
    THEN <<"outstanding mutable loan exists for object at ", e.addr>>
    ELSE <<"object at ", e.addr, " is frozen">>

\* ------------------------------------------------------ ledger operations
\* Ledger::try_borrow (register_shared).
Ledger_try_borrow(l, p) ==
    IF l[p].kind = "Exclusive"
    THEN [ok |-> FALSE, err |-> Mutating(p), ledger |-> l]
    ELSE [ok |-> TRUE, err |-> NoError,
          ledger |-> [l EXCEPT ![p] = Shared(l[p].n + 1)]]

\* Ledger::try_borrow_mut (register_exclusive).  The error names the loan
\* in the way, as LoanError documents its variants: Mutating for an
\* outstanding mutable loan, Frozen for an outstanding immutable loan.
Ledger_try_borrow_mut(l, p) ==
    IF l[p].kind = "Exclusive"
    THEN [ok |-> FALSE, err |-> Mutating(p), ledger |-> l]
    ELSE IF l[p].kind = "Shared"
    THEN [ok |-> FALSE, err |-> Frozen(p), ledger |-> l]
    ELSE [ok |-> TRUE, err |-> NoError, ledger |-> [l EXCEPT ![p] = Exclusive]]

\* Ledger::settle (release_shared); a no-op on an address that is not Shared.
Ledger_settle(l, p) ==
    IF l[p].kind = "Shared"
    THEN [l EXCEPT ![p] = IF l[p].n = 1 THEN Unborrowed ELSE Shared(l[p].n - 1)]
    ELSE l

\* Ledger::settle_mut (release_exclusive); a no-op unless Exclusive.
Ledger_settle_mut(l, p) ==
    IF l[p].kind = "Exclusive" THEN [l EXCEPT ![p] = Unborrowed] ELSE l

\* ------------------------------------------------------------------ guards
NoGuard == [kind |-> "None", h |-> "none"]

\* Ref::new registering an exclusive loan (the body of RefMut::new).
Ref_new_exclusive(l, pointer) ==
    LET r == Ledger_try_borrow_mut(l, as_mut(pointer))
    IN  IF r.ok
        THEN [ok |-> TRUE, err |-> NoError, ledger |-> r.ledger,
              guard |-> [kind |-> "Ref", h |-> pointer]]
        ELSE [ok |-> FALSE, err |-> r.err, ledger |-> r.ledger, guard |-> NoGuard]

\* Ref::new dropping the `?`: the guard is built whatever the ledger says.
Ref_new_unchecked(l, pointer) ==
    LET r == Ledger_try_borrow(l, as_ptr(pointer))
    IN  [ok |-> TRUE, err |-> NoError, ledger |-> r.ledger,
         guard |-> [kind |-> "Ref", h |-> pointer]]

\* Ref::new: register, `?` returns the error, otherwise build the guard.
Ref_new(l, pointer) ==
    LET r == Ledger_try_borrow(l, as_ptr(pointer))
    IN  IF r.ok
        THEN [ok |-> TRUE, err |-> NoError, ledger |-> r.ledger,
              guard |-> [kind |-> "Ref", h |-> pointer]]
        ELSE [ok |-> FALSE, err |-> r.err, ledger |-> r.ledger, guard |-> NoGuard]

\* Drop for Ref settling twice.
Ref_drop_twice(l, pointer) ==
    Ledger_settle(Ledger_settle(l, as_ptr(pointer)), as_ptr(pointer))

\* Drop for Ref registering instead of settling.
Ref_drop_registers(l, pointer) == Ledger_try_borrow(l, as_ptr(pointer)).ledger

\* Drop for Ref that forgets to settle.
Ref_drop_nothing(l, pointer) == l

\* impl Drop for Ref.
Ref_drop(l, pointer) == Ledger_settle(l, as_ptr(pointer))

\* RefMut::new dropping the `?`.
RefMut_new_unchecked(l, pointer) ==
    LET r == Ledger_try_borrow_mut(l, as_mut(pointer))
    IN  [ok |-> TRUE, err |-> NoError, ledger |-> r.ledger,
         guard |-> [kind |-> "RefMut", h |-> pointer]]

\* RefMut::new registering a shared loan (the body of Ref::new).
RefMut_new_shared(l, pointer) ==
    LET r == Ledger_try_borrow(l, as_ptr(pointer))
    IN  IF r.ok
        THEN [ok |-> TRUE, err |-> NoError, ledger |-> r.ledger,
              guard |-> [kind |-> "RefMut", h |-> pointer]]
        ELSE [ok |-> FALSE, err |-> r.err, ledger |-> r.ledger, guard |-> NoGuard]

\* RefMut::new leaving partial state behind: on a conflict the error is
\* returned, but the exclusive loan has been written into the ledger.
RefMut_new_partial(l, pointer) ==
    LET r == Ledger_try_borrow_mut(l, as_mut(pointer))
    IN  IF r.ok
        THEN [ok |-> TRUE, err |-> NoError, ledger |-> r.ledger,
              guard |-> [kind |-> "RefMut", h |-> pointer]]
        ELSE [ok |-> FALSE, err |-> r.err,
              ledger |-> [l EXCEPT ![as_mut(pointer)] = Exclusive],
              guard |-> NoGuard]

\* RefMut::new mapping every refusal to Frozen instead of passing the
\* ledger's error on.
RefMut_new_frozen(l, pointer) ==
    LET r == Ledger_try_borrow_mut(l, as_mut(pointer))
    IN  IF r.ok
        THEN [ok |-> TRUE, err |-> NoError, ledger |-> r.ledger,
              guard |-> [kind |-> "RefMut", h |-> pointer]]
        ELSE [ok |-> FALSE, err |-> Frozen(as_mut(pointer)), ledger |-> r.ledger,
              guard |-> NoGuard]

\* RefMut::new.
RefMut_new(l, pointer) ==
    LET r == Ledger_try_borrow_mut(l, as_mut(pointer))
    IN  IF r.ok
        THEN [ok |-> TRUE, err |-> NoError, ledger |-> r.ledger,
              guard |-> [kind |-> "RefMut", h |-> pointer]]
        ELSE [ok |-> FALSE, err |-> r.err, ledger |-> r.ledger, guard |-> NoGuard]

\* Drop for RefMut calling settle (the body of Drop for Ref).
RefMut_drop_shared(l, pointer) == Ledger_settle(l, as_ptr(pointer))

\* Drop for RefMut that forgets to settle.
RefMut_drop_nothing(l, pointer) == l

\* impl Drop for RefMut.
RefMut_drop(l, pointer) == Ledger_settle_mut(l, as_mut(pointer))

\* Borrow::try_borrow as the value types implement it: Ref::new(lock, pointer).
try_borrow(l, h) == Ref_new(l, h)

\* BorrowMut::try_borrow_mut: RefMut::new(lock, pointer).
try_borrow_mut(l, h) == RefMut_new(l, h)

\* Borrow::borrow: Ok(r) => r, Err(e) => panic!("{}", e).
borrow(l, h) ==
    LET r == try_borrow(l, h)
    IN  IF r.ok
        THEN [panic |-> FALSE, payload |-> <<>>, err |-> NoError,
              ledger |-> r.ledger, guard |-> r.guard]
        ELSE [panic |-> TRUE, payload |-> LoanError_fmt(r.err), err |-> r.err,
              ledger |-> r.ledger, guard |-> NoGuard]

\* borrow_mut swallowing the error: it hands out a guard instead of panicking.
borrow_mut_no_panic(l, h) ==
    LET r == try_borrow_mut(l, h)
    IN  [panic |-> FALSE, payload |-> <<>>, err |-> NoError,
         ledger |-> r.ledger, guard |-> [kind |-> "RefMut", h |-> h]]

\* BorrowMut::borrow_mut.
borrow_mut(l, h) ==
    LET r == try_borrow_mut(l, h)
    IN  IF r.ok
        THEN [panic |-> FALSE, payload |-> <<>>, err |-> NoError,
              ledger |-> r.ledger, guard |-> r.guard]
        ELSE [panic |-> TRUE, payload |-> LoanError_fmt(r.err), err |-> r.err,
              ledger |-> r.ledger, guard |-> NoGuard]

\* ------------------------------------------------------- the ledger cell
\* RefCell::borrow_mut on the cell that holds a lock's ledger: it is granted
\* only while no other borrow of the cell is alive.
RefCell_borrow_mut(c) ==
    IF c = "free" THEN [ok |-> TRUE, cell |-> "held"]
                  ELSE [ok |-> FALSE, cell |-> c]

\* The cell borrow kept alive after the access (stored or forgotten instead
\* of dropped).
ReleaseLedger_leaked(c) == c

\* The borrow of the cell is the local `ledger` of Ref::new, RefMut::new and
\* the two drop functions: it ends when they return, on every path.
ReleaseLedger(c) == "free"

\* ------------------------------------------------------ the panic boundary
\* What a panic carries: a String (panic! with format arguments), a &str
\* (panic! with a literal) or a value of any other type.
NoPayload == [type |-> "none", text |-> <<>>]
PanicPayloads ==
    {[type |-> "String", text |-> <<"boom">>],
     [type |-> "&str", text |-> <<"boom">>],
     [type |-> "other", text |-> <<>>]}

\* What the native function may return: NeonResult<T>.
FResults == {"Ok(v)", "Err(Throw)"}

\* The status the host returns from napi_create_error and from napi_throw.
CreateErrorStatus == {"napi_ok", "napi_string_expected"}
ThrowStatus == {"napi_ok", "napi_pending_exception"}

Marker == "internal error in Neon module"

\* convert_panics telling only the String payload apart.
PanicMessage_string_only(p) ==
    IF p.type = "String" THEN <<Marker, ": ">> \o p.text ELSE <<Marker>>

\* convert_panics, the message of a caught panic: downcast to String, then
\* to &str, otherwise the generic text.
PanicMessage(p) ==
    IF p.type = "String" THEN <<Marker, ": ">> \o p.text
    ELSE IF p.type = "&str" THEN <<Marker, ": ">> \o p.text
    ELSE <<Marker>>

\* The length in bytes of a piece of message text.
Bytes(x) ==
    CASE x = Marker -> 29
      [] x = ": " -> 2
      [] x = "boom" -> 4
      [] x = "object at " -> 10
      [] x = " is frozen" -> 10
      [] x = "outstanding mutable loan exists for object at " -> 46
      [] x = "already borrowed: BorrowMutError" -> 32
      [] OTHER -> 14

RECURSIVE ByteLen(_)
ByteLen(msg) == IF msg = <<>> THEN 0 ELSE Bytes(Head(msg)) + ByteLen(Tail(msg))

\* The longest string length the host's string representation takes.
WireLimit == 2147483647

\* Utf8::truncate: the text cut down to the wire limit.
Utf8_truncate(msg) ==
    LET fits == {k \in 0..Len(msg) : ByteLen(SubSeq(msg, 1, k)) <= WireLimit}
    IN  SubSeq(msg, 1, CHOOSE k \in fits : \A m \in fits : m <= k)

\* neon_runtime::error::new_error: napi_create_error, its status asserted.
new_error(status, msg) ==
    IF status = "napi_ok"
    THEN [panic |-> FALSE, error |-> [class |-> "Error", message |-> msg]]
    ELSE [panic |-> TRUE, error |-> [class |-> "none", message |-> <<>>]]

\* neon_runtime::error::throw: napi_throw, its status asserted.
throw(status, error) ==
    IF status = "napi_ok"
    THEN [panic |-> FALSE, thrown |-> <<error>>]
    ELSE [panic |-> TRUE, thrown |-> <<>>]

\* convert_panics returning Err(Throw) whatever the function returned.
convert_panics_drops_result(panicked, fres, p, st_create, st_throw) ==
    [ret |-> "Err(Throw)", msg |-> <<>>, thrown |-> <<>>, escaped |-> FALSE]

\* convert_panics (napi-runtime build): the result of f when catch_unwind
\* returns Ok; otherwise the message is built, turned into a host Error and
\* thrown, and Err(Throw) is returned.  A failed assertion in new_error or
\* throw is a panic outside catch_unwind: it leaves convert_panics.
convert_panics(panicked, fres, p, st_create, st_throw) ==
    IF ~panicked
    THEN [ret |-> fres, msg |-> <<>>, thrown |-> <<>>, escaped |-> FALSE]
    ELSE LET msg == PanicMessage(p)
             e == new_error(st_create, Utf8_truncate(msg))
             t == throw(st_throw, e.error)
         IN  IF e.panic
             THEN [ret |-> "none", msg |-> msg, thrown |-> <<>>, escaped |-> TRUE]
             ELSE IF t.panic
             THEN [ret |-> "none", msg |-> msg, thrown |-> <<>>, escaped |-> TRUE]
             ELSE [ret |-> "Err(Throw)", msg |-> msg, thrown |-> t.thrown,
                   escaped |-> FALSE]

\* ------------------------------------------------------------------- state
VARIABLES
    ledger,   \* ledger[s][a]: loan state of address a in the ledger of Lock s
    cell,     \* cell[s]: "held" while a borrow of Lock s's ledger cell is alive
    guards,   \* guards created in this call, in creation order:
              \* [kind, h, scope, drops, by]: drops counts the runs of its
              \* Drop impl (0 while the guard is alive), by tells what
              \* dropped it ("caller", "return" or "unwind")
    mode,     \* "running" | "returning" | "unwinding": inside the function;
              \* "returned" | "caught": convert_panics has returned;
              \* "escaped" | "aborted": a panic has left convert_panics
    payload,  \* the panic payload being unwound (NoPayload when there is none)
    call,     \* the call through convert_panics: fres, what the function
              \* returned; ret, what convert_panics returned; msg, the message
              \* it built; thrown, the host errors it threw
    last      \* the operation performed by the last step and its outcome

vars == <<ledger, cell, guards, mode, payload, call, last>>

NoOp == [op |-> "none", scope |-> 0, h |-> "none", res |-> "none",
         err |-> NoError, guard |-> 0]

NoCall == [fres |-> "none", ret |-> "none", msg |-> <<>>, thrown |-> <<>>]

\* The guards of gs that are alive.
LiveIn(gs) == {i \in 1..Len(gs) : gs[i].drops = 0}
LiveGuards == LiveIn(guards)

\* The live guards of gs of one kind on address a in scope s.
LiveOnIn(gs, kind, s, a) ==
    {i \in LiveIn(gs) : /\ gs[i].kind = kind
                        /\ gs[i].scope = s
                        /\ as_ptr(gs[i].h) = a}
LiveOn(kind, s, a) == LiveOnIn(guards, kind, s, a)

Init ==
    /\ ledger = [s \in Scopes |-> Ledger_new]
    /\ cell = [s \in Scopes |-> "free"]
    /\ guards = <<>>
    /\ mode = "running"
    /\ payload = NoPayload
    /\ call = NoCall
    /\ last = NoOp

\* lock.ledger.borrow_mut() refused: the access panics before it starts.
AlreadyBorrowed(op, s, h) ==
    /\ mode' = IF mode = "unwinding" THEN "aborted" ELSE "unwinding"
    /\ payload' = IF mode = "unwinding" THEN payload
                  ELSE [type |-> "String",
                        text |-> <<"already borrowed: BorrowMutError">>]
    /\ last' = [op |-> op, scope |-> s, h |-> h, res |-> "BorrowMutError",
                err |-> NoError, guard |-> 0]
    /\ UNCHANGED <<ledger, cell, call>>

\* A request going to one process-wide ledger instead of the lock's own:
\* the registration shows in the ledger of every scope.
Request_global_ledger(op, s, h, r) ==
    /\ mode = "running"
    /\ r.ok => Len(guards) < MaxGuards
    /\ ledger' = [t \in Scopes |-> r.ledger]
    /\ cell' = [cell EXCEPT ![s] = ReleaseLedger(RefCell_borrow_mut(cell[s]).cell)]
    /\ guards' = IF r.ok
                 THEN Append(guards, [kind |-> r.guard.kind, h |-> r.guard.h,
                                      scope |-> s, drops |-> 0, by |-> "none"])
                 ELSE guards
    /\ last' = [op |-> op, scope |-> s, h |-> h,
                res |-> IF r.ok THEN "Ok" ELSE "Err",
                err |-> r.err,
                guard |-> IF r.ok THEN Len(guards) + 1 ELSE 0]
    /\ UNCHANGED <<mode, payload, call>>

\* A Result-returning request: the guard of an Ok is kept by the caller.
Request(op, s, h, r) ==
    /\ mode = "running"
    /\ IF RefCell_borrow_mut(cell[s]).ok
       THEN /\ r.ok => Len(guards) < MaxGuards
            /\ ledger' = [ledger EXCEPT ![s] = r.ledger]
            /\ cell' = [cell EXCEPT ![s] =
                           ReleaseLedger(RefCell_borrow_mut(cell[s]).cell)]
            /\ guards' = IF r.ok
                         THEN Append(guards,
                                     [kind |-> r.guard.kind, h |-> r.guard.h,
                                      scope |-> s, drops |-> 0, by |-> "none"])
                         ELSE guards
            /\ last' = [op |-> op, scope |-> s, h |-> h,
                        res |-> IF r.ok THEN "Ok" ELSE "Err",
                        err |-> r.err,
                        guard |-> IF r.ok THEN Len(guards) + 1 ELSE 0]
            /\ UNCHANGED <<mode, payload, call>>
       ELSE AlreadyBorrowed(op, s, h) /\ UNCHANGED guards

TryBorrow(s, h) == Request("try_borrow", s, h, try_borrow(ledger[s], h))

TryBorrowMut(s, h) == Request("try_borrow_mut", s, h, try_borrow_mut(ledger[s], h))

\* A panicking request: returns the guard or starts unwinding the call.
PanickingRequest(op, s, h, r) ==
    /\ mode = "running"
    /\ IF RefCell_borrow_mut(cell[s]).ok
       THEN /\ ~r.panic => Len(guards) < MaxGuards
            /\ ledger' = [ledger EXCEPT ![s] = r.ledger]
            /\ cell' = [cell EXCEPT ![s] =
                           ReleaseLedger(RefCell_borrow_mut(cell[s]).cell)]
            /\ guards' = IF r.panic
                         THEN guards
                         ELSE Append(guards,
                                     [kind |-> r.guard.kind, h |-> r.guard.h,
                                      scope |-> s, drops |-> 0, by |-> "none"])
            /\ mode' = IF r.panic THEN "unwinding" ELSE "running"
            /\ payload' = IF r.panic
                          THEN [type |-> "String", text |-> r.payload]
                          ELSE payload
            /\ last' = [op |-> op, scope |-> s, h |-> h,
                        res |-> IF r.panic THEN "Panic" ELSE "Ok",
                        err |-> r.err,
                        guard |-> IF r.panic THEN 0 ELSE Len(guards) + 1]
            /\ UNCHANGED call
       ELSE AlreadyBorrowed(op, s, h) /\ UNCHANGED guards

Borrow(s, h) == PanickingRequest("borrow", s, h, borrow(ledger[s], h))

BorrowMut(s, h) == PanickingRequest("borrow_mut", s, h, borrow_mut(ledger[s], h))

\* Running the Drop impl of guard i.
DropOf(i, by) ==
    LET g == guards[i]
    IN  /\ guards' = [guards EXCEPT ![i].drops = @ + 1, ![i].by = by]
        /\ IF RefCell_borrow_mut(cell[g.scope]).ok
           THEN /\ ledger' = [ledger EXCEPT ![g.scope] =
                                 IF g.kind = "Ref"
                                 THEN Ref_drop(ledger[g.scope], g.h)
                                 ELSE RefMut_drop(ledger[g.scope], g.h)]
                /\ cell' = [cell EXCEPT ![g.scope] =
                               ReleaseLedger(RefCell_borrow_mut(cell[g.scope]).cell)]
                /\ last' = [op |-> "drop", scope |-> g.scope, h |-> g.h,
                            res |-> "Ok", err |-> NoError, guard |-> i]
                /\ UNCHANGED <<mode, payload, call>>
           ELSE AlreadyBorrowed("drop", g.scope, g.h)

\* The caller drops a live guard (drop(g), or its block ends).
DropGuard(i) ==
    /\ mode = "running"
    /\ i \in LiveGuards
    /\ DropOf(i, "caller")

\* The native code panics by itself.
Panic ==
    /\ mode = "running"
    /\ mode' = "unwinding"
    /\ payload' \in PanicPayloads
    /\ last' = [NoOp EXCEPT !.op = "panic", !.res = "Panic"]
    /\ UNCHANGED <<ledger, cell, guards, call>>

\* The native function returns normally, with a value or with Err(Throw).
Return ==
    /\ mode = "running"
    /\ mode' = "returning"
    /\ \E res \in FResults : call' = [call EXCEPT !.fres = res]
    /\ last' = [NoOp EXCEPT !.op = "return"]
    /\ UNCHANGED <<ledger, cell, guards, payload>>

\* Leaving the frames, by return or by unwinding, drops the locals still
\* alive, the most recently created first.
Unwind ==
    /\ mode \in {"returning", "unwinding"}
    /\ LiveGuards # {}
    /\ LET i == CHOOSE j \in LiveGuards : \A k \in LiveGuards : k <= j
       IN  DropOf(i, IF mode = "unwinding" THEN "unwind" ELSE "return")

\* The call is over: catch_unwind hands convert_panics the result or the
\* caught panic.  A panic that leaves convert_panics crosses the extern "C"
\* frames of the host: the process aborts or the unwinding goes on into them.
Finish ==
    /\ mode \in {"returning", "unwinding"}
    /\ LiveGuards = {}
    /\ \E st_create \in CreateErrorStatus, st_throw \in ThrowStatus :
          LET r == convert_panics(mode = "unwinding", call.fres, payload,
                                  st_create, st_throw)
          IN  /\ call' = [call EXCEPT !.ret = r.ret, !.msg = r.msg,
                                      !.thrown = r.thrown]
              /\ IF r.escaped
                 THEN mode' \in {"aborted", "escaped"}
                 ELSE mode' = IF mode = "unwinding" THEN "caught" ELSE "returned"
    /\ last' = [NoOp EXCEPT !.op = "finish"]
    /\ UNCHANGED <<ledger, cell, guards, payload>>

\* The host calls into native code again: new Locks, new ledgers.
NextCall ==
    /\ mode \in {"returned", "caught"}
    /\ ledger' = [s \in Scopes |-> Ledger_new]
    /\ cell' = [s \in Scopes |-> "free"]
    /\ guards' = <<>>
    /\ mode' = "running"
    /\ payload' = NoPayload
    /\ call' = NoCall
    /\ last' = NoOp

Next ==
    \/ \E s \in Scopes, h \in Handles : TryBorrow(s, h)
    \/ \E s \in Scopes, h \in Handles : TryBorrowMut(s, h)
    \/ \E s \in Scopes, h \in Handles : Borrow(s, h)
    \/ \E s \in Scopes, h \in Handles : BorrowMut(s, h)
    \/ \E i \in 1..MaxGuards : DropGuard(i)
    \/ Panic
    \/ Return
    \/ Unwind
    \/ Finish
    \/ NextCall

Spec == Init /\ [][Next]_vars

TypeOK ==
    /\ ledger \in [Scopes -> [Addrs -> LoanStates]]
    /\ cell \in [Scopes -> {"free", "held"}]
    /\ Len(guards) <= MaxGuards
    /\ \A i \in 1..Len(guards) :
          /\ guards[i].kind \in {"Ref", "RefMut"}
          /\ guards[i].h \in Handles
          /\ guards[i].scope \in Scopes
          /\ guards[i].drops \in 0..1
          /\ guards[i].by \in {"none", "caller", "return", "unwind"}
    /\ mode \in {"running", "returning", "unwinding", "returned", "caught",
                 "escaped", "aborted"}
    /\ payload.type \in {"none", "String", "&str", "other"}
    /\ call.fres \in FResults \cup {"none"}
    /\ call.ret \in FResults \cup {"none"}
    /\ Len(call.thrown) <= 1

\* ------------------------------------------------------------ properties
\* The step just taken performed operation op on handle h in scope s.
Did(op, s, h) == last'.op = op /\ last'.scope = s /\ last'.h = h

\* The step just taken ran the Drop impl of guard i.
Dropped(i) == last'.op = "drop" /\ last'.guard = i

\* The record a successful request for handle h in scope s appends.
NewGuard(kind, s, h) ==
    [kind |-> kind, h |-> h, scope |-> s, drops |-> 0, by |-> "none"]

\* C1: within one scope and for every address, at most one exclusive guard
\* (RefMut) is alive, and while one is alive no shared guard (Ref) on that
\* address is alive.
C1_SharedXorExclusive ==
    \A s \in Scopes, a \in Addrs :
        /\ Cardinality(LiveOn("RefMut", s, a)) <= 1
        /\ LiveOn("RefMut", s, a) # {} => LiveOn("Ref", s, a) = {}

\* C1 witness: an exclusive guard on A1 is alive in scope 1, next to a shared
\* guard on A2, and a second request for A1 has just been turned down.
C1_Witness ==
    /\ LiveOn("RefMut", 1, "A1") # {}
    /\ LiveOn("Ref", 1, "A2") # {}
    /\ last.op \in {"try_borrow", "try_borrow_mut"}
    /\ last.scope = 1 /\ last.h = "h1" /\ last.res = "Err"

\* C2: a shared-loan request on an address that is Unborrowed or Shared(n)
\* succeeds, creates one Ref guard, and raises the address's shared count by
\* exactly one (Unborrowed -> Shared(1), Shared(n) -> Shared(n+1)).
C2_SharedRequestSucceeds ==
    [][\A s \in Scopes, h \in Handles :
          (Did("try_borrow", s, h)
             /\ ledger[s][as_ptr(h)].kind \in {"Unborrowed", "Shared"})
          => /\ last'.res = "Ok"
             /\ ledger'[s][as_ptr(h)] = Shared(ledger[s][as_ptr(h)].n + 1)
             /\ ledger'[s][as_ptr(h)].n =
                   Cardinality(LiveOn("Ref", s, as_ptr(h))) + 1
             /\ guards' = Append(guards, NewGuard("Ref", s, h))]_vars

\* C2 witness: a try_borrow has just succeeded on an address that was
\* already Shared(1): two shared guards on it are alive.
C2_Witness ==
    /\ last.op = "try_borrow" /\ last.res = "Ok" /\ last.h = "h1"
    /\ ledger[last.scope]["A1"] = Shared(2)
    /\ Cardinality(LiveOn("Ref", last.scope, "A1")) = 2

\* C3: an exclusive-loan request succeeds if and only if the address is
\* Unborrowed at the time of the request, and on success the address becomes
\* Exclusive and one RefMut guard is created.
C3_ExclusiveIffUnborrowed ==
    [][\A s \in Scopes, h \in Handles :
          Did("try_borrow_mut", s, h)
          => /\ (last'.res = "Ok") <=> (ledger[s][as_mut(h)] = Unborrowed)
             /\ last'.res \in {"Ok", "Err"}
             /\ last'.res = "Ok" =>
                   /\ ledger'[s][as_mut(h)] = Exclusive
                   /\ guards' = Append(guards, NewGuard("RefMut", s, h))]_vars

\* C3 witness: a try_borrow_mut has just succeeded on A2 while A1 is on
\* shared loan in the same scope.
C3_Witness ==
    /\ last.op = "try_borrow_mut" /\ last.res = "Ok" /\ last.h = "h2"
    /\ ledger[last.scope]["A2"] = Exclusive
    /\ ledger[last.scope]["A1"].kind = "Shared"

\* C4: a shared-loan request on an address that is Exclusive fails with
\* LoanError::Mutating carrying that address, creates no guard, and leaves
\* the loan state of every address of every scope unchanged.
C4_SharedRequestOnExclusive ==
    [][\A s \in Scopes, h \in Handles :
          (Did("try_borrow", s, h) /\ ledger[s][as_ptr(h)].kind = "Exclusive")
          => /\ last'.res = "Err"
             /\ last'.err = Mutating(as_ptr(h))
             /\ last'.guard = 0
             /\ guards' = guards
             /\ ledger' = ledger]_vars

\* C4 witness: a try_borrow has just failed with Mutating(A1) while other
\* loans are outstanding on A2 and in the other scope.
C4_Witness ==
    /\ last.op = "try_borrow" /\ last.res = "Err" /\ last.scope = 1
    /\ last.err = Mutating("A1")
    /\ ledger[1]["A1"] = Exclusive
    /\ ledger[1]["A2"].kind = "Shared"
    /\ ledger[2]["A1"].kind = "Shared"

C6_ExclusiveWaitsForLastShared ==
    [][/\ \A s \in Scopes, h \in Handles :
             (Did("try_borrow_mut", s, h) /\ LiveOn("Ref", s, as_mut(h)) # {})
             => last'.res = "Err" /\ last'.err.variant = "Frozen"
       /\ \A s \in Scopes, h \in Handles :
             (Did("try_borrow_mut", s, h) /\ last'.res = "Ok")
             => LiveOn("Ref", s, as_mut(h)) = {}
       /\ \A i \in LiveGuards :
             (Dropped(i) /\ guards[i].kind = "Ref")
             => LET s == guards[i].scope
                    a == as_ptr(guards[i].h)
                IN  IF LiveOnIn(guards', "Ref", s, a) = {}
                    THEN /\ ledger'[s][a] = Unborrowed
                         /\ \A h \in Handles :
                               as_mut(h) = a => try_borrow_mut(ledger'[s], h).ok
                    ELSE \A h \in Handles :
                               as_mut(h) = a => ~try_borrow_mut(ledger'[s], h).ok
      ]_vars

\* C6 witness: of two shared guards on A1 one has been dropped and one is
\* alive, and a try_borrow_mut on A1 has just failed.
C6_Witness ==
    /\ last.op = "try_borrow_mut" /\ last.res = "Err"
    /\ as_mut(last.h) = "A1"
    /\ \E i, j \in 1..Len(guards) :
          /\ i # j
          /\ guards[i].kind = "Ref" /\ guards[j].kind = "Ref"
          /\ guards[i].scope = last.scope /\ guards[j].scope = last.scope
          /\ as_ptr(guards[i].h) = "A1" /\ as_ptr(guards[j].h) = "A1"
          /\ guards[i].drops = 1 /\ guards[j].drops = 0

\* C7: while an exclusive guard on an address is alive every shared-loan
\* request on it fails; right after that guard is dropped the address is
\* Unborrowed, so the next shared or exclusive request on it succeeds.
C7_SharedWaitsForExclusive ==
    [][/\ \A s \in Scopes, h \in Handles :
             (Did("try_borrow", s, h) /\ LiveOn("RefMut", s, as_ptr(h)) # {})
             => last'.res = "Err"
       /\ \A i \in LiveGuards :
             (Dropped(i) /\ guards[i].kind = "RefMut")
             => LET s == guards[i].scope
                    a == as_mut(guards[i].h)
                IN  /\ ledger'[s][a] = Unborrowed
                    /\ \A h \in Handles :
                          as_ptr(h) = a =>
                             /\ try_borrow(ledger'[s], h).ok
                             /\ try_borrow_mut(ledger'[s], h).ok
      ]_vars

\* C7 witness: an exclusive guard on A1 was dropped by the caller and a
\* try_borrow on A1 in the same scope has just succeeded.
C7_Witness ==
    /\ last.op = "try_borrow" /\ last.res = "Ok" /\ as_ptr(last.h) = "A1"
    /\ \E i \in 1..Len(guards) :
          /\ guards[i].kind = "RefMut" /\ guards[i].scope = last.scope
          /\ as_mut(guards[i].h) = "A1" /\ guards[i].drops = 1

\* C8: dropping a guard changes the loan state of its own address only, and
\* only toward Unborrowed: a shared guard takes Shared(n) to Shared(n-1), or
\* to Unborrowed when n = 1; an exclusive guard takes Exclusive to
\* Unborrowed; no count becomes negative or grows and no guard appears.
C8_ReleaseMonotone ==
    [][\A i \in LiveGuards :
          Dropped(i)
          => LET s == guards[i].scope
                 a == as_ptr(guards[i].h)
                 before == ledger[s][a]
                 after == ledger'[s][a]
             IN  /\ \A s2 \in Scopes, a2 \in Addrs :
                       <<s2, a2>> # <<s, a>> => ledger'[s2][a2] = ledger[s2][a2]
                 /\ guards[i].kind = "Ref" =>
                       /\ before.kind = "Shared" /\ before.n >= 1
                       /\ after = IF before.n = 1 THEN Unborrowed
                                                   ELSE Shared(before.n - 1)
                 /\ guards[i].kind = "RefMut" =>
                       before = Exclusive /\ after = Unborrowed
                 /\ after.n >= 0 /\ after.n <= before.n
                 /\ Len(guards') = Len(guards)
                 /\ LiveIn(guards') = LiveGuards \ {i}]_vars

\* C8 witness: one of two shared guards on an address has just been dropped,
\* leaving Shared(1), while the other scope holds the address exclusively.
C8_Witness ==
    /\ last.op = "drop" /\ guards[last.guard].kind = "Ref"
    /\ ledger[last.scope][as_ptr(last.h)] = Shared(1)
    /\ \E s \in Scopes : ledger[s][as_ptr(last.h)] = Exclusive

\* C9: when the call has unwound from a panic, the Drop impl of every guard
\* has run exactly once and every address of every ledger is Unborrowed.
C9_UnwindReleasesAll ==
    mode = "caught" =>
        /\ \A i \in 1..Len(guards) : guards[i].drops = 1
        /\ \A s \in Scopes, a \in Addrs : ledger[s][a] = Unborrowed

\* C9 witness: a panic has been caught after the unwinding dropped an
\* exclusive guard and a shared guard that were alive when it started.
C9_Witness ==
    /\ mode = "caught"
    /\ \E i, j \in 1..Len(guards) :
          /\ guards[i].kind = "RefMut" /\ guards[i].by = "unwind"
          /\ guards[j].kind = "Ref" /\ guards[j].by = "unwind"

\* C10: borrow (borrow_mut) returns a guard exactly when try_borrow
\* (try_borrow_mut) would return Ok in the same state, with the same ledger
\* transition and the same guard; it panics exactly when the try_ variant
\* would return a LoanError, and then no guard is created and the ledgers are
\* unchanged.
C10_PanickingAgreesWithTry ==
    [][\A s \in Scopes, h \in Handles :
          /\ Did("borrow", s, h) =>
                LET r == try_borrow(ledger[s], h)
                IN  /\ (last'.res = "Ok") <=> r.ok
                    /\ (last'.res = "Panic") <=> ~r.ok
                    /\ r.ok => /\ ledger' = [ledger EXCEPT ![s] = r.ledger]
                               /\ guards' = Append(guards, NewGuard("Ref", s, h))
                               /\ mode' = "running"
                    /\ ~r.ok => /\ ledger' = ledger /\ guards' = guards
                                /\ mode' = "unwinding"
                                /\ last'.err = r.err
          /\ Did("borrow_mut", s, h) =>
                LET r == try_borrow_mut(ledger[s], h)
                IN  /\ (last'.res = "Ok") <=> r.ok
                    /\ (last'.res = "Panic") <=> ~r.ok
                    /\ r.ok => /\ ledger' = [ledger EXCEPT ![s] = r.ledger]
                               /\ guards' = Append(guards, NewGuard("RefMut", s, h))
                               /\ mode' = "running"
                    /\ ~r.ok => /\ ledger' = ledger /\ guards' = guards
                                /\ mode' = "unwinding"
                                /\ last'.err = r.err]_vars

\* C10 witness: borrow_mut has just panicked on an address on shared loan;
\* the call is unwinding with the shared guard still alive.
C10_Witness ==
    /\ last.op = "borrow_mut" /\ last.res = "Panic" /\ mode = "unwinding"
    /\ last.err.variant = "Frozen"
    /\ LiveOn("Ref", last.scope, as_mut(last.h)) # {}

Admits(op, st) ==
    IF op \in {"try_borrow", "borrow"} THEN st.kind # "Exclusive"
                                       ELSE st = Unborrowed

\* C13: ledgers are per scope: a request or a release in one scope leaves
\* the ledger of the other scope unchanged, and whether a request succeeds
\* is decided by the loan state of the address in its own scope alone.
C13_LedgersPerScope ==
    [][/\ \A s \in Scopes, h \in Handles :
          \A op \in {"try_borrow", "try_borrow_mut", "borrow", "borrow_mut"} :
             Did(op, s, h)
             => /\ \A t \in Scopes \ {s} : ledger'[t] = ledger[t]
                /\ (last'.res = "Ok") <=> Admits(op, ledger[s][as_ptr(h)])
       /\ \A i \in LiveGuards :
             Dropped(i)
             => \A t \in Scopes \ {guards[i].scope} : ledger'[t] = ledger[t]
      ]_vars

\* C13 witness: scope 2 has just been granted an exclusive loan on A1 while
\* scope 1 holds an exclusive loan on the same address.
C13_Witness ==
    /\ last.op = "try_borrow_mut" /\ last.res = "Ok"
    /\ last.scope = 2 /\ last.h = "h1"
    /\ LiveOn("RefMut", 1, "A1") # {}
    /\ LiveOn("RefMut", 2, "A1") # {}

\* C14: when the access scopes have ended (the native call is over, by
\* return or by a caught panic) every guard created from them has been
\* released and no ledger holds an outstanding entry.
C14_NoLoanOutlivesScope ==
    mode \notin {"running", "returning", "unwinding"} =>
        /\ LiveGuards = {}
        /\ \A i \in 1..Len(guards) : guards[i].drops = 1
        /\ \A s \in Scopes, a \in Addrs : ledger[s][a] = Unborrowed

\* C14 witness: the call has returned after its scope exit dropped a shared
\* guard and an exclusive guard that the caller had left alive.
C14_Witness ==
    /\ mode = "returned"
    /\ \E i, j \in 1..Len(guards) :
          /\ guards[i].kind = "Ref" /\ guards[i].by = "return"
          /\ guards[j].kind = "RefMut" /\ guards[j].by = "return"

\* C16: the ledger and the live guards correspond exactly: an address is
\* Shared(n) iff exactly n >= 1 shared guards on it are alive, Exclusive iff
\* exactly one exclusive guard on it is alive, Unborrowed iff no guard on it
\* is alive; no guard's Drop has run more than once.
C16_LedgerMatchesGuards ==
    /\ \A s \in Scopes, a \in Addrs :
          LET r == Cardinality(LiveOn("Ref", s, a))
              m == Cardinality(LiveOn("RefMut", s, a))
          IN  /\ (ledger[s][a].kind = "Shared") <=> (r >= 1 /\ m = 0)
              /\ ledger[s][a].kind = "Shared" => ledger[s][a].n = r
              /\ (ledger[s][a] = Exclusive) <=> (m = 1 /\ r = 0)
              /\ (ledger[s][a] = Unborrowed) <=> (r = 0 /\ m = 0)
    /\ \A i \in 1..Len(guards) : guards[i].drops <= 1

\* C16 witness: in scope 1, A1 is Shared(2) with two live shared guards and
\* A2 is Unborrowed after the drop of the guard that had it.
C16_Witness ==
    /\ ledger[1]["A1"] = Shared(2)
    /\ Cardinality(LiveOn("Ref", 1, "A1")) = 2
    /\ ledger[1]["A2"] = Unborrowed
    /\ \E i \in 1..Len(guards) :
          guards[i].scope = 1 /\ guards[i].h = "h2" /\ guards[i].drops = 1

\* C17: a release never meets an address without the matching loan: when
\* the Drop of a shared guard calls settle its address is Shared(n), n >= 1,
\* and when the Drop of an exclusive guard calls settle_mut its address is
\* Exclusive.
C17_ReleaseMeetsItsLoan ==
    [][\A i \in LiveGuards :
          Dropped(i)
          => LET g == guards[i]
             IN  /\ g.kind = "Ref" =>
                       /\ ledger[g.scope][as_ptr(g.h)].kind = "Shared"
                       /\ ledger[g.scope][as_ptr(g.h)].n >= 1
                 /\ g.kind = "RefMut" =>
                       ledger[g.scope][as_mut(g.h)] = Exclusive]_vars

\* C17 witness: the unwinding has just dropped the last of two shared guards
\* on one address, after the caller had dropped the first.
C17_Witness ==
    /\ mode = "unwinding" /\ last.op = "drop"
    /\ guards[last.guard].kind = "Ref" /\ guards[last.guard].by = "unwind"
    /\ \E i \in 1..Len(guards) :
          /\ i # last.guard
          /\ guards[i].kind = "Ref" /\ guards[i].by = "caller"
          /\ guards[i].scope = last.scope /\ guards[i].h = last.h

\* C11: every panic raised inside the native function is caught by
\* convert_panics and never reaches the host: once such a call is over,
\* convert_panics has thrown exactly one host error and returned Err(Throw),
\* and the boundary can take the next call.
C11_PanicsStopAtBoundary ==
    (payload.type # "none" /\ mode \notin {"running", "returning", "unwinding"})
    => /\ mode = "caught"
       /\ call.ret = "Err(Throw)"
       /\ Len(call.thrown) = 1

\* C12: the message of the host error thrown by convert_panics starts with
\* the marker "internal error in Neon module"; for a String or &str payload
\* with text m it is the marker, ": " and m, for any other payload it is the
\* marker alone.
C12_MessageOfHostError ==
    \A k \in 1..Len(call.thrown) :
        LET m == call.thrown[k].message
        IN  /\ call.thrown[k].class = "Error"
            /\ Len(m) >= 1 /\ m[1] = Marker
            /\ payload.type \in {"String", "&str"} =>
                  m = <<Marker, ": ">> \o payload.text
            /\ payload.type \notin {"String", "&str"} => m = <<Marker>>

\* C12 witness: a panic with the &str payload "boom" has been caught and the
\* host error reads "internal error in Neon module: boom".
C12_Witness ==
    /\ mode = "caught" /\ payload.type = "&str"
    /\ Len(call.thrown) = 1
    /\ call.thrown[1].message = <<Marker, ": ", "boom">>

\* C18: when the native function finishes without panicking, convert_panics
\* returns the function's result unchanged, throws no host error and builds
\* no message.
C18_ResultPassedThrough ==
    [][(mode = "returning" /\ last'.op = "finish")
       => /\ mode' = "returned"
          /\ call.fres \in FResults
          /\ call'.ret = call.fres
          /\ call'.thrown = <<>>
          /\ call'.msg = <<>>]_vars

\* C18 witness: the function returned a value after borrowing, and
\* convert_panics has returned that value.
C18_Witness ==
    /\ mode = "returned" /\ call.fres = "Ok(v)" /\ call.ret = "Ok(v)"
    /\ call.thrown = <<>>
    /\ Len(guards) >= 1

\* C19: every access to a lock's ledger starts with the ledger cell free and
\* ends before the operation returns: between operations no borrow of the
\* cell is alive and lock.ledger.borrow_mut() has never been refused, also
\* while guards are dropped during the unwinding of a panicking borrow.
C19_LedgerCellNeverBusy ==
    /\ \A s \in Scopes : cell[s] = "free"
    /\ last.res # "BorrowMutError"

\* C19 witness: borrow_mut panicked on a loaned address and the unwinding
\* has just run the Drop of a guard, which got the ledger cell.
C19_Witness ==
    /\ mode = "unwinding" /\ last.op = "drop" /\ last.res = "Ok"
    /\ payload.type = "String" /\ payload.text = LoanError_fmt(Frozen("A1"))
    /\ cell[last.scope] = "free"

====
